---- MODULE Spec2Model ----
(***************************************************************************)
(* Key management, message hashing/signing and the Schnorr example of the  *)
(* libsecp256k1 crate (src/src/keys.rs, src/src/secp256k1/message.rs,      *)
(* src/examples/schnorr_sig.rs).                                           *)
(*                                                                         *)
(* The scalar, field, group, ecmult, DRBG and challenge modules are not    *)
(* among the source files; they are modelled from the specification's      *)
(* algebraic contract on a scaled-down curve of the same shape as          *)
(* secp256k1: y^2 = x^3 + 7 over F_13, a group of prime order 7, with      *)
(* 4-bit words standing for the 32-byte big-endian encodings               *)
(* (GroupN < FieldP < ByteMod, as n < p < 2^256).                          *)
(***************************************************************************)
EXTENDS Integers, Sequences, FiniteSets, TLC

VARIABLES
    sk, pk,          \* key algebra: the SecretKey / PublicKey values a caller holds
    call,            \* codec: the last parse / hash / serialize call and its result
    sg, prev,        \* Message::sign: the running call's frame, the last finished call
    ex               \* examples/schnorr_sig.rs: main's locals and position

vars == <<sk, pk, call, sg, prev, ex>>

(***************************************************************************)
(* Curve parameters and encodings                                          *)
(***************************************************************************)
FieldP == 13
GroupN == 7
ByteMod == 16
CurveB == 7
GeneratorX == 7
GeneratorY == 5

TAG_PUBKEY_EVEN == 2
TAG_PUBKEY_ODD == 3
TAG_PUBKEY_UNCOMPRESSED == 4
TAG_PUBKEY_HYBRID_EVEN == 6
TAG_PUBKEY_HYBRID_ODD == 7

\* every value a fixed-width big-endian buffer can hold
Bytes == 0 .. (ByteMod - 1)
\* every value a tag byte is tried with (0x02 .. 0x07, 0x05 included)
TagBytes == 2 .. 7

(***************************************************************************)
(* Results                                                                 *)
(***************************************************************************)
Ok(v) == [ok |-> TRUE, val |-> v, err |-> "None"]
Err(e, dflt) == [ok |-> FALSE, val |-> dflt, err |-> e]

(***************************************************************************)
(* Scalar: integers modulo the group order                                 *)
(***************************************************************************)
ScalarDefault == 0

\* set_b32: the value reduced, and whether the raw value was >= n
ScalarSetB32(b) == [value |-> b % GroupN, overflow |-> b >= GroupN]

\* b32: big-endian bytes of the reduced value
ScalarB32(s) == s % ByteMod

ScalarIsZero(s) == s = 0

ScalarAdd(a, b) == (a + b) % GroupN

ScalarMul(a, b) == (a * b) % GroupN

ScalarNeg(a) == (GroupN - a) % GroupN

RECURSIVE ScalarPow(_, _)
ScalarPow(a, e) ==
    IF e = 0 THEN 1 % GroupN
    ELSE LET h == ScalarPow(a, e \div 2)
             hh == (h * h) % GroupN
         IN IF e % 2 = 1 THEN (hh * a) % GroupN ELSE hh

\* multiplicative inverse; the zero element yields zero
ScalarInv(a) == ScalarPow(a, GroupN - 2)

\* s > n/2
ScalarIsHigh(s) == 2 * s > GroupN

(***************************************************************************)
(* Field: integers modulo the curve prime                                  *)
(***************************************************************************)
\* set_b32: TRUE when the raw value is below p (then stored), FALSE on overflow
FieldSetB32(b) == [value |-> b % FieldP, good |-> b < FieldP]

\* normalize_var + fill_b32
FieldFillB32(f) == (f % FieldP) % ByteMod

FieldIsOdd(f) == (f % FieldP) % 2 = 1

FieldAdd(a, b) == (a + b) % FieldP

FieldSub(a, b) == (a + FieldP - (b % FieldP)) % FieldP

FieldMul(a, b) == (a * b) % FieldP

FieldSqr(a) == FieldMul(a, a)

FieldNeg(a) == (FieldP - (a % FieldP)) % FieldP

RECURSIVE FieldPow(_, _)
FieldPow(a, e) ==
    IF e = 0 THEN 1 % FieldP
    ELSE LET h == FieldPow(a, e \div 2)
             hh == FieldSqr(h)
         IN IF e % 2 = 1 THEN FieldMul(hh, a) ELSE hh

\* multiplicative inverse; the zero element yields zero
FieldInv(a) == FieldPow(a, FieldP - 2)

\* the square roots of a (none when a is a non-residue)
FieldSqrts(a) == {r \in 0 .. (FieldP - 1) : FieldSqr(r) = a % FieldP}

(***************************************************************************)
(* Group: affine and Jacobian points                                       *)
(***************************************************************************)
AffineDefault == [infinity |-> FALSE, x |-> 0, y |-> 0]

AffineInfinity == [infinity |-> TRUE, x |-> 0, y |-> 0]

JacobianDefault == [infinity |-> TRUE, x |-> 0, y |-> 0, z |-> 0]

AffineSetXY(x, y) == [infinity |-> FALSE, x |-> x, y |-> y]

AffineIsInfinity(a) == a.infinity

\* y^2 = x^3 + 7, and not the point at infinity
AffineIsValidVar(a) ==
    /\ ~a.infinity
    /\ FieldSqr(a.y) = FieldAdd(FieldMul(FieldSqr(a.x), a.x), CurveB)

\* decompression: solve for y with the wanted parity; good = FALSE when x is on no point
AffineSetXoVar(x, odd) ==
    LET rhs == FieldAdd(FieldMul(FieldSqr(x), x), CurveB)
        roots == FieldSqrts(rhs)
    IN IF roots = {} THEN [good |-> FALSE, elem |-> AffineDefault]
       ELSE LET r == CHOOSE c \in roots : TRUE
                y == IF FieldIsOdd(r) = odd THEN r ELSE FieldNeg(r)
            IN [good |-> TRUE, elem |-> AffineSetXY(x, y)]

JacobianSetGe(a) ==
    IF a.infinity THEN JacobianDefault
    ELSE [infinity |-> FALSE, x |-> a.x, y |-> a.y, z |-> 1]

\* doubling in Jacobian coordinates (curve coefficient a = 0)
JacobianDouble(j) ==
    IF j.infinity \/ j.y = 0 THEN JacobianDefault
    ELSE LET yy == FieldSqr(j.y)
             s == FieldMul(4, FieldMul(j.x, yy))
             m == FieldMul(3, FieldSqr(j.x))
             x3 == FieldSub(FieldSqr(m), FieldMul(2, s))
             y3 == FieldSub(FieldMul(m, FieldSub(s, x3)), FieldMul(8, FieldSqr(yy)))
             z3 == FieldMul(2, FieldMul(j.y, j.z))
         IN [infinity |-> FALSE, x |-> x3, y |-> y3, z |-> z3]

\* mixed addition: Jacobian + affine
JacobianAddGe(j, b) ==
    IF j.infinity THEN JacobianSetGe(b)
    ELSE IF b.infinity THEN j
    ELSE LET zz == FieldSqr(j.z)
             u2 == FieldMul(b.x, zz)
             s2 == FieldMul(b.y, FieldMul(zz, j.z))
             h == FieldSub(u2, j.x)
             i == FieldSub(s2, j.y)
         IN IF h = 0
            THEN (IF i = 0 THEN JacobianDouble(j) ELSE JacobianDefault)
            ELSE LET hh == FieldSqr(h)
                     hhh == FieldMul(hh, h)
                     v == FieldMul(j.x, hh)
                     x3 == FieldSub(FieldSub(FieldSqr(i), hhh), FieldMul(2, v))
                     y3 == FieldSub(FieldMul(i, FieldSub(v, x3)), FieldMul(j.y, hhh))
                     z3 == FieldMul(j.z, h)
                 IN [infinity |-> FALSE, x |-> x3, y |-> y3, z |-> z3]

\* Jacobian -> affine: divide by z^2 and z^3
AffineSetGej(j) ==
    IF j.infinity THEN AffineInfinity
    ELSE LET zi == FieldInv(j.z)
             zi2 == FieldSqr(zi)
         IN [infinity |-> FALSE,
             x |-> FieldMul(j.x, zi2),
             y |-> FieldMul(j.y, FieldMul(zi2, zi))]

(***************************************************************************)
(* Multiplication contexts                                                 *)
(***************************************************************************)
Generator == AffineSetXY(GeneratorX, GeneratorY)

\* scalar * point, double-and-add from the top bit down
RECURSIVE EcmultConst(_, _)
EcmultConst(a, scalar) ==
    IF scalar = 0 THEN JacobianDefault
    ELSE LET d == JacobianDouble(EcmultConst(a, scalar \div 2))
         IN IF scalar % 2 = 1 THEN JacobianAddGe(d, a) ELSE d

\* scalar * G
EcmultGen(scalar) == EcmultConst(Generator, scalar)

(***************************************************************************)
(* keys.rs                                                                 *)
(***************************************************************************)
PublicKeyFromSecretKey(seckey) == AffineSetGej(EcmultGen(seckey))

PublicKeyParseCompressed(tag, xb) ==
    IF ~(tag = TAG_PUBKEY_EVEN \/ tag = TAG_PUBKEY_ODD)
    THEN Err("InvalidPublicKey", AffineDefault)
    ELSE LET x == FieldSetB32(xb) IN
    IF ~x.good THEN Err("InvalidPublicKey", AffineDefault)
    ELSE LET e == AffineSetXoVar(x.value, tag = TAG_PUBKEY_ODD) IN
    IF ~e.good THEN Err("InvalidPublicKey", AffineDefault)
    ELSE IF AffineIsInfinity(e.elem) THEN Err("InvalidPublicKey", AffineDefault)
    ELSE IF AffineIsValidVar(e.elem) THEN Ok(e.elem)
    ELSE Err("InvalidPublicKey", AffineDefault)

PublicKeyParse_NoParity(tag, xb, yb) ==
    IF ~(tag = TAG_PUBKEY_UNCOMPRESSED \/ tag = TAG_PUBKEY_HYBRID_EVEN
            \/ tag = TAG_PUBKEY_HYBRID_ODD)
    THEN Err("InvalidPublicKey", AffineDefault)
    ELSE LET x == FieldSetB32(xb)
             y == FieldSetB32(yb) IN
    IF ~x.good THEN Err("InvalidPublicKey", AffineDefault)
    ELSE IF ~y.good THEN Err("InvalidPublicKey", AffineDefault)
    ELSE LET elem == AffineSetXY(x.value, y.value) IN
    IF AffineIsInfinity(elem) THEN Err("InvalidPublicKey", AffineDefault)
    ELSE IF AffineIsValidVar(elem) THEN Ok(elem)
    ELSE Err("InvalidPublicKey", AffineDefault)

PublicKeyParse(tag, xb, yb) ==
    IF ~(tag = TAG_PUBKEY_UNCOMPRESSED \/ tag = TAG_PUBKEY_HYBRID_EVEN
            \/ tag = TAG_PUBKEY_HYBRID_ODD)
    THEN Err("InvalidPublicKey", AffineDefault)
    ELSE LET x == FieldSetB32(xb)
             y == FieldSetB32(yb) IN
    IF ~x.good THEN Err("InvalidPublicKey", AffineDefault)
    ELSE IF ~y.good THEN Err("InvalidPublicKey", AffineDefault)
    ELSE LET elem == AffineSetXY(x.value, y.value) IN
    IF (tag = TAG_PUBKEY_HYBRID_EVEN \/ tag = TAG_PUBKEY_HYBRID_ODD)
          /\ (FieldIsOdd(y.value) # (tag = TAG_PUBKEY_HYBRID_ODD))
    THEN Err("InvalidPublicKey", AffineDefault)
    ELSE IF AffineIsInfinity(elem) THEN Err("InvalidPublicKey", AffineDefault)
    ELSE IF AffineIsValidVar(elem) THEN Ok(elem)
    ELSE Err("InvalidPublicKey", AffineDefault)

\* the 65-byte form as <<tag, x bytes, y bytes>>
PublicKeySerialize_XTwice(key) ==
    <<TAG_PUBKEY_UNCOMPRESSED, FieldFillB32(key.x), FieldFillB32(key.x)>>

PublicKeySerialize(key) ==
    <<TAG_PUBKEY_UNCOMPRESSED, FieldFillB32(key.x), FieldFillB32(key.y)>>

\* the 33-byte form as <<tag, x bytes>>
PublicKeySerializeCompressed(key) ==
    <<IF FieldIsOdd(key.y) THEN TAG_PUBKEY_ODD ELSE TAG_PUBKEY_EVEN,
      FieldFillB32(key.x)>>

\* j1 left at its default
PublicKeyAdd_UnsetJ1(lhs, rhs) ==
    LET j1 == JacobianDefault
        j2 == JacobianAddGe(j1, rhs)
    IN AffineSetGej(j2)

PublicKeyAdd(lhs, rhs) ==
    LET j1 == JacobianSetGe(lhs)
        j2 == JacobianAddGe(j1, rhs)
    IN AffineSetGej(j2)

SecretKeyParse_ZeroOk(b) ==
    LET elem == ScalarSetB32(b)
    IN IF ~elem.overflow THEN Ok(elem.value)
       ELSE Err("InvalidSecretKey", ScalarDefault)

SecretKeyParse(b) ==
    LET elem == ScalarSetB32(b)
    IN IF ~elem.overflow /\ ~ScalarIsZero(elem.value) THEN Ok(elem.value)
       ELSE Err("InvalidSecretKey", ScalarDefault)

\* the keys random() can return: the first draw that parses
SecretKeyRandom == {SecretKeyParse(b).val : b \in {c \in Bytes : SecretKeyParse(c).ok}}

SecretKeySerialize(key) == ScalarB32(key)

SecretKeyAdd(lhs, rhs) == ScalarAdd(lhs, rhs)

SecretKeyMul_Add(lhs, rhs) == ScalarAdd(lhs, rhs)

SecretKeyMul(lhs, rhs) == ScalarMul(lhs, rhs)

SecretKeyMulPublicKey(seckey, pubkey) == AffineSetGej(EcmultConst(pubkey, seckey))

SecretKeyNeg(key) == ScalarNeg(key)

\* inv(), used by the Schnorr example
SecretKeyInv(key) == ScalarInv(key)

(***************************************************************************)
(* schnorr: Challenge                                                      *)
(***************************************************************************)
\* the digests Challenge::new can hash its inputs to: the hash is an external
\* capability, any fixed-width output is possible
ChallengeDigests == Bytes

\* Challenge::as_scalar: the digest read as key material
ChallengeAsScalar(digest) == SecretKeyParse(digest)

(***************************************************************************)
(* message.rs: Message::hash, parse, serialize                             *)
(***************************************************************************)
MaxMsg == 9
\* the byte strings handed to Message::hash
MsgInputs == 0 .. MaxMsg

\* the external digest capability: bytes -> one fixed-width digest
Sha256Digest(b) == (5 * b + 3) % ByteMod

\* From<SecretKey> for Message
MessageFrom(k) == k

MessageParse(b) == ScalarSetB32(b).value

MessageHash_Reduce(b) == Ok(MessageParse(Sha256Digest(b)))

MessageHash(b) ==
    LET hash == Sha256Digest(b)
        s == SecretKeyParse(hash)
    IN IF ~s.ok THEN Err(s.err, ScalarDefault)
       ELSE Ok(MessageFrom(s.val))

MessageSerialize(m) == ScalarB32(m)

(***************************************************************************)
(* The deterministic bit generator and the raw signer used by              *)
(* Message::sign                                                           *)
(***************************************************************************)
\* HmacDRBG::new(entropy, nonce, personalization): a keyed generator state
HmacDRBGNew(entropy, nonce, pers) ==
    [k |-> (2 * (entropy + 3 * nonce + 5 * Len(pers)) + 1) % ByteMod, v |-> 1]

\* HmacDRBG::generate: the state after the call; its v is the output
HmacDRBGGenerate(d) == [d EXCEPT !.v = (5 * d.v + d.k) % ByteMod]

SignatureDefault == [r |-> 0, s |-> 0, recid |-> 0]

\* sign_raw: r = x(nonce*G) mod n, s = nonce^-1 (message + r*seckey), low-s,
\* recid from x's overflow and y's parity
SignRaw(seckey, message, nonce) ==
    LET rp == AffineSetGej(EcmultGen(nonce))
        xr == ScalarSetB32(FieldFillB32(rp.x))
        sigr == xr.value
        recid == (IF xr.overflow THEN 2 ELSE 0) + (IF FieldIsOdd(rp.y) THEN 1 ELSE 0)
        sigs == ScalarMul(ScalarInv(nonce), ScalarAdd(ScalarMul(sigr, seckey), message))
    IN IF rp.infinity \/ ScalarIsZero(sigr) \/ ScalarIsZero(sigs)
       THEN Err("InvalidSignature", SignatureDefault)
       ELSE IF ScalarIsHigh(sigs)
            THEN Ok([r |-> sigr, s |-> ScalarNeg(sigs),
                     recid |-> IF recid % 2 = 1 THEN recid - 1 ELSE recid + 1])
            ELSE Ok([r |-> sigr, s |-> sigs, recid |-> recid])

(***************************************************************************)
(* Key algebra: a caller holding up to two SecretKeys and two PublicKeys,  *)
(* each obtained from a constructor or from an operator applied to held    *)
(* keys                                                                    *)
(***************************************************************************)
Slots == {1, 2}
NoSecretKey == -1
NoPublicKey == [infinity |-> FALSE, x |-> -1, y |-> -1]

CallIdle == [op |-> "idle", tag |-> 0, xb |-> 0, yb |-> 0,
             res |-> Err("None", AffineDefault), out |-> <<>>]
SignIdle ==
    [pc |-> "idle", seckey |-> 0, message |-> 0, seckey_b32 |-> 0, message_b32 |-> 0,
     drbg |-> [k |-> 0, v |-> 0], generated |-> 0, generated2 |-> 0,
     nonce |-> ScalarDefault, overflow |-> FALSE, signed_with |-> 0,
     result |-> Err("None", [r |-> 0, s |-> 0, recid |-> 0])]
ExampleIdle ==
    [pc |-> "idle", m |-> 0, k |-> 0, P |-> NoPublicKey,
     e |-> 0, s |-> 0, lhs |-> NoPublicKey, rhs |-> NoPublicKey, hacked |-> 0,
     nonce |-> 0, R |-> NoPublicKey,
     e2 |-> 0, s2 |-> 0, lhs2 |-> NoPublicKey, rhs2 |-> NoPublicKey]

Init ==
    /\ sk = [i \in Slots |-> NoSecretKey]
    /\ pk = [i \in Slots |-> NoPublicKey]
    /\ call = CallIdle
    /\ sg = SignIdle
    /\ prev = SignIdle
    /\ ex = ExampleIdle

KSecretKeyParse(i, b) ==
    /\ SecretKeyParse(b).ok
    /\ sk' = [sk EXCEPT ![i] = SecretKeyParse(b).val]
    /\ UNCHANGED <<pk, call, sg, prev, ex>>

KSecretKeyRandom(i) ==
    /\ \E key \in SecretKeyRandom : sk' = [sk EXCEPT ![i] = key]
    /\ UNCHANGED <<pk, call, sg, prev, ex>>

KSecretKeyAdd(i, a, b) ==
    /\ sk[a] # NoSecretKey /\ sk[b] # NoSecretKey
    /\ sk' = [sk EXCEPT ![i] = SecretKeyAdd(sk[a], sk[b])]
    /\ UNCHANGED <<pk, call, sg, prev, ex>>

KSecretKeyMul(i, a, b) ==
    /\ sk[a] # NoSecretKey /\ sk[b] # NoSecretKey
    /\ sk' = [sk EXCEPT ![i] = SecretKeyMul(sk[a], sk[b])]
    /\ UNCHANGED <<pk, call, sg, prev, ex>>

KSecretKeyNeg(i, a) ==
    /\ sk[a] # NoSecretKey
    /\ sk' = [sk EXCEPT ![i] = SecretKeyNeg(sk[a])]
    /\ UNCHANGED <<pk, call, sg, prev, ex>>

KPublicKeyParse(i, tag, xb, yb) ==
    /\ PublicKeyParse(tag, xb, yb).ok
    /\ pk' = [pk EXCEPT ![i] = PublicKeyParse(tag, xb, yb).val]
    /\ UNCHANGED <<sk, call, sg, prev, ex>>

KPublicKeyParseCompressed(i, tag, xb) ==
    /\ PublicKeyParseCompressed(tag, xb).ok
    /\ pk' = [pk EXCEPT ![i] = PublicKeyParseCompressed(tag, xb).val]
    /\ UNCHANGED <<sk, call, sg, prev, ex>>

KPublicKeyFromSecretKey(i, a) ==
    /\ sk[a] # NoSecretKey
    /\ pk' = [pk EXCEPT ![i] = PublicKeyFromSecretKey(sk[a])]
    /\ UNCHANGED <<sk, call, sg, prev, ex>>

KPublicKeyAdd(i, a, b) ==
    /\ pk[a] # NoPublicKey /\ pk[b] # NoPublicKey
    /\ pk' = [pk EXCEPT ![i] = PublicKeyAdd(pk[a], pk[b])]
    /\ UNCHANGED <<sk, call, sg, prev, ex>>

KSecretKeyMulPublicKey(i, a, b) ==
    /\ sk[a] # NoSecretKey /\ pk[b] # NoPublicKey
    /\ pk' = [pk EXCEPT ![i] = SecretKeyMulPublicKey(sk[a], pk[b])]
    /\ UNCHANGED <<sk, call, sg, prev, ex>>

KeysNext ==
    \/ \E i \in Slots, v \in Bytes : KSecretKeyParse(i, v)
    \/ \E i \in Slots : KSecretKeyRandom(i)
    \/ \E i \in Slots, a \in Slots, b \in Slots : KSecretKeyAdd(i, a, b)
    \/ \E i \in Slots, a \in Slots, b \in Slots : KSecretKeyMul(i, a, b)
    \/ \E i \in Slots, a \in Slots : KSecretKeyNeg(i, a)
    \/ \E i \in Slots, tag \in TagBytes, xb \in Bytes, yb \in Bytes :
          KPublicKeyParse(i, tag, xb, yb)
    \/ \E i \in Slots, tag \in TagBytes, xb \in Bytes :
          KPublicKeyParseCompressed(i, tag, xb)
    \/ \E i \in Slots, a \in Slots : KPublicKeyFromSecretKey(i, a)
    \/ \E i \in Slots, a \in Slots, b \in Slots : KPublicKeyAdd(i, a, b)
    \/ \E i \in Slots, a \in Slots, b \in Slots : KSecretKeyMulPublicKey(i, a, b)

SpecKeys == Init /\ [][KeysNext]_vars

HeldSecretKeys == {sk[i] : i \in {j \in Slots : sk[j] # NoSecretKey}}
HeldPublicKeys == {pk[i] : i \in {j \in Slots : pk[j] # NoPublicKey}}

\* C3: every SecretKey held is a scalar in [1, n)
C3_SecretKeysNonzeroBelowOrder ==
    \A k \in HeldSecretKeys : 0 < k /\ k < GroupN

\* C2: every PublicKey held is a non-infinity point on the curve
C2_PublicKeysOnCurveNotInfinity ==
    \A q \in HeldPublicKeys : ~AffineIsInfinity(q) /\ AffineIsValidVar(q)

\* sanity of the group model: k*G computed in Jacobian coordinates is on the curve,
\* and the group has order n
GroupSane ==
    /\ \A k \in 1 .. (GroupN - 1) : AffineIsValidVar(PublicKeyFromSecretKey(k))
    /\ PublicKeyFromSecretKey(GroupN) = AffineInfinity
    /\ \A a \in 1 .. (GroupN - 1), b \in 1 .. (GroupN - 1) :
          PublicKeyAdd(PublicKeyFromSecretKey(a), PublicKeyFromSecretKey(b))
             = PublicKeyFromSecretKey(a + b)
    /\ Cardinality({PublicKeyFromSecretKey(k) : k \in 1 .. GroupN}) = GroupN

(***************************************************************************)
(* Codec: one parse / hash call on caller-supplied bytes, and serialize    *)
(* applied to the key it returned                                          *)
(***************************************************************************)
NewCall(op, tag, xb, yb, res) ==
    [op |-> op, tag |-> tag, xb |-> xb, yb |-> yb, res |-> res, out |-> <<>>]

CSecretKeyParse(b) ==
    /\ call.op = "idle"
    /\ call' = NewCall("SecretKey::parse", 0, b, 0, SecretKeyParse(b))
    /\ UNCHANGED <<sk, pk, sg, prev, ex>>

CSecretKeySerialize ==
    /\ call.op = "SecretKey::parse" /\ call.res.ok /\ call.out = <<>>
    /\ call' = [call EXCEPT !.out = <<SecretKeySerialize(call.res.val)>>]
    /\ UNCHANGED <<sk, pk, sg, prev, ex>>

CPublicKeyParse(tag, xb, yb) ==
    /\ call.op = "idle"
    /\ call' = NewCall("PublicKey::parse", tag, xb, yb, PublicKeyParse(tag, xb, yb))
    /\ UNCHANGED <<sk, pk, sg, prev, ex>>

CPublicKeySerialize ==
    /\ call.op = "PublicKey::parse" /\ call.res.ok /\ call.out = <<>>
    /\ call' = [call EXCEPT !.out = PublicKeySerialize(call.res.val)]
    /\ UNCHANGED <<sk, pk, sg, prev, ex>>

CPublicKeyParseCompressed(tag, xb) ==
    /\ call.op = "idle"
    /\ call' = NewCall("PublicKey::parse_compressed", tag, xb, 0,
                       PublicKeyParseCompressed(tag, xb))
    /\ UNCHANGED <<sk, pk, sg, prev, ex>>

CPublicKeySerializeCompressed ==
    /\ call.op = "PublicKey::parse_compressed" /\ call.res.ok /\ call.out = <<>>
    /\ call' = [call EXCEPT !.out = PublicKeySerializeCompressed(call.res.val)]
    /\ UNCHANGED <<sk, pk, sg, prev, ex>>

CMessageHash(b) ==
    /\ call.op = "idle"
    /\ call' = NewCall("Message::hash", 0, b, 0, MessageHash(b))
    /\ UNCHANGED <<sk, pk, sg, prev, ex>>

CMessageParse(b) ==
    /\ call.op = "idle"
    /\ call' = NewCall("Message::parse", 0, b, 0, Ok(MessageParse(b)))
    /\ UNCHANGED <<sk, pk, sg, prev, ex>>

CMessageSerialize ==
    /\ call.op \in {"Message::hash", "Message::parse"} /\ call.res.ok /\ call.out = <<>>
    /\ call' = [call EXCEPT !.out = <<MessageSerialize(call.res.val)>>]
    /\ UNCHANGED <<sk, pk, sg, prev, ex>>

\* the caller drops the result and makes its next call
CReturn ==
    /\ call.op # "idle"
    /\ call' = CallIdle
    /\ UNCHANGED <<sk, pk, sg, prev, ex>>

CodecNext ==
    \/ \E b \in Bytes : CSecretKeyParse(b)
    \/ CSecretKeySerialize
    \/ \E tag \in TagBytes, xb \in Bytes, yb \in Bytes : CPublicKeyParse(tag, xb, yb)
    \/ CPublicKeySerialize
    \/ \E tag \in TagBytes, xb \in Bytes : CPublicKeyParseCompressed(tag, xb)
    \/ CPublicKeySerializeCompressed
    \/ \E b \in MsgInputs : CMessageHash(b)
    \/ \E b \in Bytes : CMessageParse(b)
    \/ CMessageSerialize
    \/ CReturn

SpecCodec == Init /\ [][CodecNext]_vars

\* C1: SecretKey::parse(v) is Ok(v) exactly when 0 < v < n, and Err(InvalidSecretKey)
\* for v = 0 and for every v >= n
C1_SecretKeyParseRange ==
    call.op = "SecretKey::parse" =>
        /\ call.res.ok <=> (0 < call.xb /\ call.xb < GroupN)
        /\ call.res.ok => call.res.val = call.xb
        /\ ~call.res.ok => call.res.err = "InvalidSecretKey"

C1_Witness ==
    /\ call.op = "SecretKey::parse"
    /\ call.xb = 0
    /\ ~call.res.ok

\* the curve equation on raw coordinates
OnCurve(x, y) == (y * y) % FieldP = (x * x * x + CurveB) % FieldP

\* C5: PublicKey::parse is Ok exactly for tag 4/6/7, x and y below p, (x, y) on the
\* curve and, for a hybrid tag, y's parity as the tag says; otherwise Err(InvalidPublicKey)
C5_PublicKeyParseAccepts ==
    call.op = "PublicKey::parse" =>
        /\ call.res.ok <=>
              /\ call.tag \in {4, 6, 7}
              /\ call.xb < FieldP /\ call.yb < FieldP
              /\ OnCurve(call.xb, call.yb)
              /\ call.tag = 6 => call.yb % 2 = 0
              /\ call.tag = 7 => call.yb % 2 = 1
        /\ call.res.ok => call.res.val = [infinity |-> FALSE, x |-> call.xb, y |-> call.yb]
        /\ ~call.res.ok => call.res.err = "InvalidPublicKey"

\* a hybrid-odd tag on a curve point whose y is even is rejected
C5_Witness ==
    /\ call.op = "PublicKey::parse"
    /\ call.tag = 7 /\ call.xb < FieldP /\ call.yb < FieldP
    /\ OnCurve(call.xb, call.yb) /\ call.yb % 2 = 0
    /\ ~call.res.ok

\* C4 as stated: serialize(parse(b)) = b for every accepted 65-byte encoding b,
\* tag byte included
C4_RoundTripKeepsTag ==
    (call.op = "PublicKey::parse" /\ call.res.ok /\ call.out # <<>>) =>
        call.out = <<call.tag, call.xb, call.yb>>

\* C4 amended: serialize(parse(b)) is tag 0x04 followed by b's x and y bytes, so it
\* equals b exactly when b's tag is 0x04
C4_RoundTripTagUncompressed ==
    (call.op = "PublicKey::parse" /\ call.res.ok /\ call.out # <<>>) =>
        /\ call.out = <<4, call.xb, call.yb>>
        /\ (call.out = <<call.tag, call.xb, call.yb>>) <=> (call.tag = 4)

\* a hybrid encoding was accepted and serialized
C4_Witness ==
    /\ call.op = "PublicKey::parse" /\ call.res.ok /\ call.out # <<>>
    /\ call.tag = 6

\* C9: Message::hash(b) is Ok(Message(digest)) exactly when 0 < digest < n; for a
\* digest of zero or >= n it is Err(InvalidSecretKey), as SecretKey::parse gives
C9_MessageHashRange ==
    call.op = "Message::hash" =>
        LET d == Sha256Digest(call.xb)
        IN /\ call.res.ok <=> (0 < d /\ d < GroupN)
           /\ call.res.ok => call.res.val = d
           /\ ~call.res.ok =>
                 /\ call.res.err = "InvalidSecretKey"
                 /\ call.res.err = SecretKeyParse(d).err

\* a digest at or above the group order was rejected
C9_Witness ==
    /\ call.op = "Message::hash"
    /\ Sha256Digest(call.xb) >= GroupN
    /\ ~call.res.ok

(***************************************************************************)
(* Message::sign, statement by statement.  sg is the call's frame: its     *)
(* arguments, its locals as they stand in memory (kept as left when the    *)
(* call returns), and signed_with, the nonce that was handed to sign_raw.  *)
(* prev is the frame of an earlier finished call.                          *)
(***************************************************************************)
\* the Message values a caller can hold: Message::parse of any bytes
Messages == {MessageParse(b) : b \in Bytes}

\* message.rs line 38, in the running frame
SignNewDrbg_Stale(seckey_b32, message_b32) ==
    IF sg.pc = "returned" THEN sg.drbg ELSE HmacDRBGNew(seckey_b32, message_b32, <<>>)

SignNewDrbg(seckey_b32, message_b32) == HmacDRBGNew(seckey_b32, message_b32, <<>>)

\* lines 35-38: serialize the arguments, seed the generator
SignCall(seckey, message) ==
    /\ sg.pc \in {"idle", "returned"}
    /\ sg' = [SignIdle EXCEPT
                !.pc = "seeded",
                !.seckey = seckey,
                !.message = message,
                !.seckey_b32 = ScalarB32(seckey),
                !.message_b32 = ScalarB32(message),
                !.drbg = SignNewDrbg(ScalarB32(seckey), ScalarB32(message))]
    /\ prev' \in {prev} \cup (IF sg.pc = "returned" THEN {sg} ELSE {})
    /\ UNCHANGED <<sk, pk, call, ex>>

\* lines 39-41: the first draw
SignFirstDraw ==
    /\ sg.pc = "seeded"
    /\ LET d == HmacDRBGGenerate(sg.drbg)
           n == ScalarSetB32(d.v)
       IN sg' = [sg EXCEPT !.pc = "loop", !.drbg = d, !.generated = d.v,
                           !.nonce = n.value, !.overflow = n.overflow]
    /\ UNCHANGED <<sk, pk, call, prev, ex>>

\* lines 43-46: draw again while the nonce overflowed or is zero
SignRedraw ==
    /\ sg.pc = "loop"
    /\ sg.overflow \/ ScalarIsZero(sg.nonce)
    /\ LET d == HmacDRBGGenerate(sg.drbg)
           n == ScalarSetB32(d.v)
       IN sg' = [sg EXCEPT !.drbg = d, !.generated2 = d.v,
                           !.nonce = n.value, !.overflow = n.overflow]
    /\ UNCHANGED <<sk, pk, call, prev, ex>>

\* lines 48-52: sign with the accepted nonce, then reset the nonce
SignSignRaw ==
    /\ sg.pc = "loop"
    /\ ~(sg.overflow \/ ScalarIsZero(sg.nonce))
    /\ sg' = [sg EXCEPT !.pc = "signed",
                        !.result = SignRaw(sg.seckey, sg.message, sg.nonce),
                        !.signed_with = sg.nonce,
                        !.nonce = ScalarDefault]
    /\ UNCHANGED <<sk, pk, call, prev, ex>>

\* lines 53-57: return Ok((Signature, RecoveryId)) or the error
SignReturn ==
    /\ sg.pc = "signed"
    /\ sg' = [sg EXCEPT !.pc = "returned"]
    /\ UNCHANGED <<sk, pk, call, prev, ex>>

SignNext ==
    \/ \E seckey \in SecretKeyRandom, message \in Messages : SignCall(seckey, message)
    \/ SignFirstDraw
    \/ SignRedraw
    \/ SignSignRaw
    \/ SignReturn

SpecSign == Init /\ [][SignNext]_vars

\* C6: two finished calls of Message::sign on the same (key, message) derived the
\* same nonce and returned the same outcome
C6_SignDeterministic ==
    (/\ sg.pc = "returned" /\ prev.pc = "returned"
     /\ sg.seckey = prev.seckey /\ sg.message = prev.message) =>
        /\ sg.signed_with = prev.signed_with
        /\ sg.result = prev.result

\* two finished calls on the same pair, the nonce found after a rejected draw
C6_Witness ==
    /\ sg.pc = "returned" /\ prev.pc = "returned"
    /\ sg.seckey = prev.seckey /\ sg.message = prev.message
    /\ sg.result.ok
    /\ sg.generated2 # 0

\* C10: when Message::sign has returned, every local that held secret scalar bytes
\* (seckey_b32, both generator outputs, the nonce) is zero
C10_SecretBuffersCleared ==
    sg.pc = "returned" =>
        /\ sg.seckey_b32 = 0
        /\ sg.generated = 0
        /\ sg.generated2 = 0
        /\ sg.nonce = 0

(***************************************************************************)
(* examples/schnorr_sig.rs: main, statement by statement.  unwrap() and    *)
(* assert_eq! panic on failure.                                            *)
(***************************************************************************)
ExUnchanged == UNCHANGED <<sk, pk, call, sg, prev>>

\* line 8: m = Message::hash(..).unwrap()
ExHashMessage(b) ==
    /\ ex.pc = "idle"
    /\ LET r == MessageHash(b)
       IN ex' = IF r.ok THEN [ex EXCEPT !.pc = "hashed", !.m = r.val]
                ELSE [ex EXCEPT !.pc = "panicked"]
    /\ ExUnchanged

\* lines 10-12: k = SecretKey::random, P = PublicKey::from_secret_key(&k)
ExGenKey ==
    /\ ex.pc = "hashed"
    /\ \E k \in SecretKeyRandom :
          ex' = [ex EXCEPT !.pc = "keyed", !.k = k, !.P = PublicKeyFromSecretKey(k)]
    /\ ExUnchanged

\* lines 17-20: e = H(P || m), s = e * k
ExUnsafeSign(digest) ==
    /\ ex.pc = "keyed"
    /\ LET r == ChallengeAsScalar(digest)
       IN ex' = IF r.ok
                THEN [ex EXCEPT !.pc = "unsafe_signed", !.e = r.val,
                                !.s = SecretKeyMul(r.val, ex.k)]
                ELSE [ex EXCEPT !.pc = "panicked"]
    /\ ExUnchanged

\* line 23: assert_eq!(PublicKey::from_secret_key(&s), e*P)
ExUnsafeVerify ==
    /\ ex.pc = "unsafe_signed"
    /\ LET lhs == PublicKeyFromSecretKey(ex.s)
           rhs == SecretKeyMulPublicKey(ex.e, ex.P)
       IN ex' = [ex EXCEPT !.lhs = lhs, !.rhs = rhs,
                           !.pc = IF lhs = rhs THEN "unsafe_verified" ELSE "assert_failed"]
    /\ ExUnchanged

\* lines 26-27: hacked = s * e.inv(), assert_eq!(k, hacked)
ExHack ==
    /\ ex.pc = "unsafe_verified"
    /\ LET hacked == SecretKeyMul(ex.s, SecretKeyInv(ex.e))
       IN ex' = [ex EXCEPT !.hacked = hacked,
                           !.pc = IF ex.k = hacked THEN "hacked" ELSE "assert_failed"]
    /\ ExUnchanged

\* lines 33-35: nonce = SecretKey::random, R = PublicKey::from_secret_key(&nonce)
ExNonce ==
    /\ ex.pc = "hacked"
    /\ \E r \in SecretKeyRandom :
          ex' = [ex EXCEPT !.pc = "nonced", !.nonce = r, !.R = PublicKeyFromSecretKey(r)]
    /\ ExUnchanged

\* lines 37-41: e = H(R || P || m), s = nonce + e * k
ExSign(digest) ==
    /\ ex.pc = "nonced"
    /\ LET r == ChallengeAsScalar(digest)
       IN ex' = IF r.ok
                THEN [ex EXCEPT !.pc = "signed", !.e2 = r.val,
                                !.s2 = SecretKeyAdd(ex.nonce, SecretKeyMul(r.val, ex.k))]
                ELSE [ex EXCEPT !.pc = "panicked"]
    /\ ExUnchanged

\* line 44: assert_eq!(PublicKey::from_secret_key(&s), e*P + R)
ExVerify ==
    /\ ex.pc = "signed"
    /\ LET lhs == PublicKeyFromSecretKey(ex.s2)
           rhs == PublicKeyAdd(SecretKeyMulPublicKey(ex.e2, ex.P), ex.R)
       IN ex' = [ex EXCEPT !.lhs2 = lhs, !.rhs2 = rhs,
                           !.pc = IF lhs = rhs THEN "done" ELSE "assert_failed"]
    /\ ExUnchanged

ExampleNext ==
    \/ \E b \in MsgInputs : ExHashMessage(b)
    \/ ExGenKey
    \/ \E digest \in ChallengeDigests : ExUnsafeSign(digest)
    \/ ExUnsafeVerify
    \/ ExHack
    \/ ExNonce
    \/ \E digest \in ChallengeDigests : ExSign(digest)
    \/ ExVerify

SpecExample == Init /\ [][ExampleNext]_vars

\* C7: with a random nonce r, R = r*G and any challenge scalar e, the signature
\* s = r + e*k satisfies from_secret_key(s) = e*P + R
C7_SecureSchnorrSound ==
    /\ ex.lhs2 # NoPublicKey => ex.lhs2 = ex.rhs2
    /\ ex.pc = "signed" =>
          PublicKeyFromSecretKey(ex.s2)
             = PublicKeyAdd(SecretKeyMulPublicKey(ex.e2, ex.P), ex.R)

\* the secure variant verified a signature that is a valid (nonzero) scalar
C7_Witness ==
    /\ ex.pc = "done"
    /\ ex.s2 # 0
    /\ ex.e2 # 1
    /\ ex.lhs2 = ex.rhs2 /\ AffineIsValidVar(ex.lhs2)

\* C8: the no-nonce signature s = e*k verifies (from_secret_key(s) = e*P) and
\* s * e^-1 is the original key k
C8_InsecureSchnorrRecoversKey ==
    /\ ex.lhs # NoPublicKey => ex.lhs = ex.rhs
    /\ ex.pc \in {"hacked", "nonced", "signed", "done"} => ex.hacked = ex.k
    /\ ex.pc = "unsafe_verified" => SecretKeyMul(ex.s, SecretKeyInv(ex.e)) = ex.k
    /\ ex.pc # "assert_failed"

\* the key was recovered from a signature made with a challenge other than 1
C8_Witness ==
    /\ ex.pc = "hacked"
    /\ ex.e # 1
    /\ ex.hacked = ex.k
    /\ ex.s # ex.k

====
